---- MODULE Spec2Model ----
(***************************************************************************)
(* AutoTutor (src/src/App.jsx): the session state of the App component,    *)
(* its event handlers, and the asynchronous continuations of the two       *)
(* completion requests (lesson generation and chat).                       *)
(*                                                                         *)
(* Modelling conventions                                                   *)
(*  - One action is one browser event or one resolution of a pending       *)
(*    fetch; React re-renders between events, so a handler reads the       *)
(*    state of the latest render.  The one exception is rec.onresult,      *)
(*    registered by an effect with an empty dependency list: it keeps the  *)
(*    sendChatMessage of the first render, whose closure holds             *)
(*    messages = [] and chatLoading = false.                               *)
(*  - Text is a sequence of tokens; the token " " is whitespace, every     *)
(*    other token is a run of non-whitespace characters.                   *)
(*  - JS undefined is the token Undefined, JS null for score is Null.      *)
(*  - Fields named xid, pre, hist, via and the variables last, nLesson,    *)
(*    nChat are history (ghost) state: the code never reads them.          *)
(***************************************************************************)
EXTENDS Integers, Sequences, FiniteSets, TLC

\* ---------------------------------------------------------------- bounds
MaxLessonCalls == 2     \* fetchLesson calls that reach the transport
MaxChatCalls == 2       \* sendChatMessage calls that reach the transport

\* ------------------------------------------------------------- constants
WindowCap == 10         \* slice(-10)
Null == -1              \* useState(null) for score
Undefined == "undefined"

\* ------------------------------------------------------------------ text
WS == " "

RECURSIVE TrimStart(_)
TrimStart(t) ==
  IF t = <<>> THEN <<>>
  ELSE IF Head(t) = WS THEN TrimStart(Tail(t)) ELSE t

RECURSIVE TrimEnd(_)
TrimEnd(t) ==
  IF t = <<>> THEN <<>>
  ELSE IF t[Len(t)] = WS THEN TrimEnd(SubSeq(t, 1, Len(t) - 1)) ELSE t

\* String.prototype.trim
Trim(t) == TrimEnd(TrimStart(t))

\* Array.prototype.slice(-n)
SliceLast(s, n) ==
  IF Len(s) <= n THEN s ELSE SubSeq(s, Len(s) - n + 1, Len(s))

\* ------------------------------------------------- the values of a session
NoSelection == [i \in {} |-> Undefined]

\* a fallback quiz of one item
FallbackQuiz_OneItem(t) ==
  << [q |-> <<"What is ">> \o t \o <<"?">>,
      a |-> <<"A function", "A concept", "A library">>,
      correct |-> "A concept"] >>

\* the fallback quiz of fetchLesson's else branch
FallbackQuiz(t) ==
  << [q |-> <<"What is ">> \o t \o <<"?">>,
      a |-> <<"A function", "A concept", "A library">>,
      correct |-> "A concept"],
     [q |-> <<"Why is ">> \o t \o <<" important?">>,
      a |-> <<"For styling", "For organization", "For memory">>,
      correct |-> "For organization"] >>

FallbackSummary(t) == t \o <<" helps developers write clean and maintainable code.">>

FailedLesson(t) == <<"Lesson generation failed for \"">> \o t \o <<"\". Check console.">>

\* the assistant turn of sendChatMessage's catch branch
ChatErrorText == <<"Sorry", WS, "there was an error fetching a response. Check console.">>

\* ------------------------------------------- model output and extractJSON
(* A raw completion text is a Text whose tokens may also be brackets or    *)
(* whole JSON documents.  A document token stands for the serialisation of *)
(* one JSON value: it begins with its opening bracket, ends with its       *)
(* closing bracket, and DocValue gives what JSON.parse returns for it.     *)
QuizItem(q, c) == [q |-> <<q>>, a |-> <<"x", "y", "z">>, correct |-> c]

ObjDocs == {"{good}", "{other}", "{nocorrect}", "{quizstr}", "{nosummary}"}
ArrDocs == {"[items]"}
Docs == ObjDocs \cup ArrDocs

\* what a parsed value shows to fetchLesson: lesson and summary are <<>> when
\* the key is missing or falsy; quiz.kind is "array" for an array, "other"
\* for any other truthy value, "missing" for a missing or falsy one
NoFields == [lesson |-> <<>>, quiz |-> [kind |-> "missing", items |-> <<>>], summary |-> <<>>]

DocValue(d) ==
  CASE d = "{good}" ->
         [lesson |-> <<"L1">>,
          quiz |-> [kind |-> "array", items |-> <<QuizItem("Q1", "y")>>],
          summary |-> <<"S1">>]
    [] d = "{other}" ->
         [lesson |-> <<"L2">>,
          quiz |-> [kind |-> "array", items |-> <<QuizItem("Q2", "x")>>],
          summary |-> <<"S2">>]
    [] d = "{nocorrect}" ->
         [lesson |-> <<"L3">>,
          quiz |-> [kind |-> "array", items |-> <<QuizItem("Q3", Undefined)>>],
          summary |-> <<"S3">>]
    [] d = "{quizstr}" ->
         [lesson |-> <<"L4">>,
          quiz |-> [kind |-> "other", items |-> <<>>],
          summary |-> <<"S4">>]
    [] d = "{nosummary}" ->
         [lesson |-> <<"L5">>,
          quiz |-> [kind |-> "array", items |-> <<QuizItem("Q5", "z")>>],
          summary |-> <<>>]
    [] OTHER -> NoFields

OpensWith(tok) ==
  IF tok \in ObjDocs \cup {"{"} THEN "{"
  ELSE IF tok \in ArrDocs \cup {"["} THEN "[" ELSE ""

CloserOf(open) == IF open = "{" THEN "}" ELSE "]"

\* the token holds the character c somewhere ({quizstr} holds no array)
Contains(tok, c) ==
  \/ tok = c
  \/ c = "}" /\ tok \in Docs
  \/ c = "]" /\ tok \in Docs \ {"{quizstr}"}

\* the last character of the token is c
EndsWith(tok, c) ==
  \/ tok = c
  \/ c = "}" /\ tok \in ObjDocs
  \/ c = "]" /\ tok \in ArrDocs

\* JSON.parse: [ok |-> FALSE] stands for the SyntaxError it throws
JSONParse(t) ==
  LET s == Trim(t)
      n == Len(s)
      inner == IF n >= 2 THEN Trim(SubSeq(s, 2, n - 1)) ELSE <<>>
  IN  IF n = 1 /\ s[1] \in Docs THEN [ok |-> TRUE, val |-> DocValue(s[1])]
      ELSE IF /\ n >= 2 /\ s[1] = "[" /\ s[n] = "]"
              /\ (inner = <<>> \/ (Len(inner) = 1 /\ inner[1] \in Docs))
        THEN [ok |-> TRUE, val |-> NoFields]
      ELSE IF n >= 2 /\ s[1] = "{" /\ s[n] = "}" /\ inner = <<>>
        THEN [ok |-> TRUE, val |-> NoFields]
      ELSE [ok |-> FALSE, val |-> NoFields]

\* text.match(/\{[\s\S]*\}|\[[\s\S]*\]/): the leftmost position where one of
\* the alternatives matches, extended greedily to the last closer of its kind
MatchStarts(t) ==
  {i \in 1..Len(t) :
     /\ OpensWith(t[i]) # ""
     /\ \E j \in i..Len(t) :
          /\ Contains(t[j], CloserOf(OpensWith(t[i])))
          /\ (j = i => t[i] \in Docs)}

Min(S) == CHOOSE x \in S : \A y \in S : x <= y
Max(S) == CHOOSE x \in S : \A y \in S : x >= y

JsonMatch(t) ==
  IF MatchStarts(t) = {} THEN [found |-> FALSE, whole |-> FALSE, text |-> <<>>]
  ELSE LET i == Min(MatchStarts(t))
           c == CloserOf(OpensWith(t[i]))
           j == Max({k \in i..Len(t) : Contains(t[k], c)})
       IN  [found |-> TRUE,
            \* FALSE when the match ends inside the token t[j]
            whole |-> EndsWith(t[j], c),
            text |-> SubSeq(t, i, j)]

NullParsed == [isNull |-> TRUE, val |-> NoFields]

extractJSON(text) ==
  IF text = <<>> THEN NullParsed
  ELSE IF JSONParse(text).ok THEN [isNull |-> FALSE, val |-> JSONParse(text).val]
  ELSE LET m == JsonMatch(text)
       IN  IF m.found /\ m.whole /\ JSONParse(m.text).ok
             THEN [isNull |-> FALSE, val |-> JSONParse(m.text).val]
             ELSE NullParsed

\* ------------------------------------------------------------ the inputs
Topics == {<<WS>>, <<"T">>}
ChatInputs == {<<WS>>, <<"q", WS>>}
Transcripts == {<<>>, <<WS>>, <<"v">>}
Options == {"x", "y", "A concept", "For organization"}
Indices == 0..1

LessonRaws ==
  { <<>>,
    <<"Sorry,", WS, "no.">>,
    <<"{good}">>,
    <<"Here:", WS, "{other}", WS>>,
    <<"{nocorrect}">>,
    <<"{quizstr}">>,
    <<"{nosummary}">>,
    <<"{good}", WS, "{other}">> }
ChatRaws == {<<"R">>}

\* what the transport does with a request: fetch rejects ("network"), the
\* endpoint answers an error status with a JSON error body ("status") or
\* with a body that is not JSON ("badbody"), or it answers the completion
Outcome(k, r) == [kind |-> k, raw |-> r]
Failures == {Outcome(k, <<>>) : k \in {"network", "status", "badbody"}}
LessonOutcomes == Failures \cup {Outcome("ok", r) : r \in LessonRaws}
ChatOutcomes == Failures \cup {Outcome("ok", r) : r \in ChatRaws}

\* await fetch(...) or await response.json() rejects
Throws(o) == o.kind \in {"network", "badbody"}

\* result?.choices?.[0]?.message?.content || result?.choices?.[0]?.text || ""
RawTextOf(o) == IF o.kind = "ok" THEN o.raw ELSE <<>>

\* ------------------------------------------------------------- the state
VARIABLES topic, lesson, quiz, summary, selected, score, loading,
          messages, chatInput, chatLoading,
          store, lessonReqs, chatReqs, crashed,
          last, nLesson, nChat

vars == <<topic, lesson, quiz, summary, selected, score, loading,
          messages, chatInput, chatLoading,
          store, lessonReqs, chatReqs, crashed, last, nLesson, nChat>>

lessonVars == <<lesson, quiz, summary>>
quizVars == <<selected, score>>
chatVars == <<messages, chatInput, chatLoading>>

\* localStorage["autotutor-progress"]
NoSnapshot ==
  [has |-> FALSE, topic |-> <<>>, lesson |-> <<>>,
   quiz |-> [kind |-> "missing", items |-> <<>>], summary |-> <<>>,
   hasSelected |-> FALSE, selected |-> NoSelection,
   hasScore |-> FALSE, score |-> Null]

Snapshot(t, l, q, s) ==
  [NoSnapshot EXCEPT !.has = TRUE, !.topic = t, !.lesson = l, !.quiz = q, !.summary = s]

AsArray(items) == [kind |-> "array", items |-> items]

\* the session state a claim compares before and after an operation
Session == [lesson |-> lesson, quiz |-> quiz, summary |-> summary,
            selected |-> selected, score |-> score, messages |-> messages]
NoSession == [lesson |-> <<>>, quiz |-> <<>>, summary |-> <<>>,
              selected |-> NoSelection, score |-> Null, messages |-> <<>>]

\* the last operation: its name, how it went, whether it called alert(), and
\* for a lesson response the session its request was called in
Did(op, how) == [op |-> op, how |-> how, alert |-> FALSE, pre |-> NoSession]

Init ==
  /\ topic = <<>> /\ lesson = <<>> /\ quiz = <<>> /\ summary = <<>>
  /\ selected = NoSelection /\ score = Null /\ loading = FALSE
  /\ messages = <<>> /\ chatInput = <<>> /\ chatLoading = FALSE
  /\ store = NoSnapshot
  /\ lessonReqs = {} /\ chatReqs = {}
  /\ crashed = FALSE
  /\ last = Did("init", "")
  /\ nLesson = 0 /\ nChat = 0

\* ------------------------------------------------------ lesson generation
\* onChange of the topic input
SetTopic(t) ==
  /\ ~crashed
  /\ topic' = t
  /\ last' = Did("other", "")
  /\ UNCHANGED <<lessonVars, quizVars, loading, chatVars, store,
                 lessonReqs, chatReqs, crashed, nLesson, nChat>>

\* if (!topic.trim()) return alert(...)
TopicRejected(t) == Trim(t) = <<>>

\* fetchLesson up to its first await: the guard, the clearing of the session
\* and the request handed to fetch; the continuation keeps the topic of the
\* render it was called in.  keepPre says whether the request remembers the
\* session it was called in (history only).
fetchLesson(keepPre) ==
  IF TopicRejected(topic)
    THEN /\ last' = [Did("fetchLesson", "rejected") EXCEPT !.alert = TRUE]
         /\ UNCHANGED <<topic, lessonVars, quizVars, loading, chatVars,
                        store, lessonReqs, chatReqs, crashed, nLesson, nChat>>
    ELSE /\ nLesson < MaxLessonCalls
         /\ loading' = TRUE
         /\ lesson' = <<>> /\ quiz' = <<>> /\ summary' = <<>>
         /\ score' = Null /\ selected' = NoSelection
         /\ messages' = <<>>
         /\ nLesson' = nLesson + 1
         /\ lessonReqs' = lessonReqs \cup
              {[id |-> nLesson + 1, topic |-> topic,
                pre |-> IF keepPre THEN Session ELSE NoSession]}
         /\ last' = Did("fetchLesson", "sent")
         /\ UNCHANGED <<topic, chatInput, chatLoading, store,
                        chatReqs, crashed, nChat>>

\* <button onClick={fetchLesson} disabled={loading}>
GenerateButton(keepPre) ==
  /\ ~crashed
  /\ ~loading
  /\ fetchLesson(keepPre)

\* onKeyDown={(e) => e.key === "Enter" && fetchLesson()}
TopicEnter(keepPre) ==
  /\ ~crashed
  /\ fetchLesson(keepPre)

\* the test of fetchLesson without its summary conjunct
Usable_WithoutSummary(parsed) ==
  /\ ~parsed.isNull
  /\ parsed.val.lesson # <<>>
  /\ parsed.val.quiz.kind # "missing"

\* if (parsed && parsed.lesson && parsed.quiz && parsed.summary)
Usable(parsed) ==
  /\ ~parsed.isNull
  /\ parsed.val.lesson # <<>>
  /\ parsed.val.quiz.kind # "missing"
  /\ parsed.val.summary # <<>>

\* the continuation of fetchLesson after its awaits: try, catch, finally
LessonResponse(r, o) ==
  /\ ~crashed
  /\ r \in lessonReqs
  /\ lessonReqs' = lessonReqs \ {r}
  /\ loading' = FALSE
  /\ IF Throws(o)
       THEN /\ last' = [op |-> "lessonResponse", how |-> o.kind,
                         alert |-> TRUE, pre |-> r.pre]
            /\ UNCHANGED <<lessonVars, store>>
       ELSE LET rawText == RawTextOf(o)
                parsed == extractJSON(rawText)
            IN  /\ last' = [op |-> "lessonResponse", how |-> o.kind,
                             alert |-> FALSE, pre |-> r.pre]
                /\ IF Usable(parsed)
                     THEN /\ lesson' = parsed.val.lesson
                          /\ quiz' = IF parsed.val.quiz.kind = "array"
                                       THEN parsed.val.quiz.items ELSE <<>>
                          /\ summary' = parsed.val.summary
                          /\ store' = Snapshot(r.topic, parsed.val.lesson,
                                               parsed.val.quiz, parsed.val.summary)
                     ELSE /\ lesson' = IF rawText # <<>> THEN rawText
                                       ELSE FailedLesson(r.topic)
                          /\ quiz' = FallbackQuiz(r.topic)
                          /\ summary' = FallbackSummary(r.topic)
                          /\ UNCHANGED store
  /\ UNCHANGED <<topic, quizVars, chatVars, chatReqs, crashed,
                 nLesson, nChat>>

\* -------------------------------------------------------------------- chat
\* onChange of the chat input
SetChatInput(t) ==
  /\ ~crashed
  /\ chatInput' = t
  /\ last' = Did("other", "")
  /\ UNCHANGED <<topic, lessonVars, quizVars, loading, messages, chatLoading, store, lessonReqs, chatReqs, crashed, nLesson, nChat>>

Turn(role, content, xid) == [role |-> role, content |-> content, xid |-> xid]

\* .map((m) => ({ role: m.role, content: m.content }))
ForModel(ms) == [k \in 1..Len(ms) |-> [role |-> ms[k].role, content |-> ms[k].content]]

\* (messages || []).slice(-10).map(...): the turns sent ahead of the new one
windowForPrompt(ms) == ForModel(SliceLast(ms, WindowCap))

\* if (!userText || chatLoading) return;
ChatRejected(userText, closureLoading) == userText = <<>> \/ closureLoading

\* sendChatMessage up to its first await.  closureMessages and closureLoading
\* are the messages and chatLoading of the render whose sendChatMessage is
\* called; setMessages((m) => [...m, userMsg]) appends to the current state.
sendChatMessage(userText, closureMessages, closureLoading, via) ==
  IF ChatRejected(userText, closureLoading)
    THEN /\ last' = Did("sendChatMessage", "rejected")
         /\ UNCHANGED <<messages, chatLoading, chatReqs, nChat>>
    ELSE /\ nChat < MaxChatCalls
         /\ messages' = Append(messages, Turn("user", userText, nChat + 1))
         /\ chatLoading' = TRUE
         /\ nChat' = nChat + 1
         /\ chatReqs' = chatReqs \cup
              {[id |-> nChat + 1,
                window |-> windowForPrompt(closureMessages),
                user |-> [role |-> "user", content |-> userText],
                via |-> via,
                hist |-> ForModel(messages)]}
         /\ last' = Did("sendChatMessage", via)

\* <button onClick={...} disabled={chatLoading}>: if (!chatInput.trim()) return
SendButton ==
  /\ ~crashed
  /\ ~chatLoading
  /\ Trim(chatInput) # <<>>
  /\ sendChatMessage(Trim(chatInput), messages, chatLoading, "button")
  /\ chatInput' = IF last'.how = "rejected" THEN chatInput ELSE <<>>
  /\ UNCHANGED <<topic, lessonVars, quizVars, loading, store,
                 lessonReqs, crashed, nLesson>>

\* onKeyDown: if (e.key === "Enter" && chatInput.trim()) sendChatMessage(...)
ChatEnter ==
  /\ ~crashed
  /\ Trim(chatInput) # <<>>
  /\ sendChatMessage(Trim(chatInput), messages, chatLoading, "enter")
  /\ chatInput' = IF last'.how = "rejected" THEN chatInput ELSE <<>>
  /\ UNCHANGED <<topic, lessonVars, quizVars, loading, store,
                 lessonReqs, crashed, nLesson>>

\* rec.onresult: the recognizer, once started by toggleListen, delivers a
\* final transcript (whether it runs is the browser's state; listening only
\* labels the button).  The handler was registered by the first render's
\* effect, so the sendChatMessage it calls reads that render's messages ([])
\* and chatLoading (false).
SpeechResult(transcript) ==
  /\ ~crashed
  /\ sendChatMessage(transcript, <<>>, FALSE, "speech")
  \* setChatInput(transcript), then setChatInput("") unless rejected
  /\ chatInput' = IF last'.how = "rejected" THEN transcript ELSE <<>>
  /\ UNCHANGED <<topic, lessonVars, quizVars, loading, store,
                 lessonReqs, crashed, nLesson>>

\* the continuation of sendChatMessage with a catch branch that only logs
ChatResponse_SilentCatch(r, o) ==
  /\ ~crashed
  /\ r \in chatReqs
  /\ chatReqs' = chatReqs \ {r}
  /\ chatLoading' = FALSE
  /\ messages' =
       IF Throws(o) THEN messages
       ELSE Append(messages, Turn("assistant", RawTextOf(o), r.id))
  /\ last' = Did("chatResponse", o.kind)
  /\ UNCHANGED <<topic, lessonVars, quizVars, loading, chatInput,
                 store, lessonReqs, crashed, nLesson, nChat>>

\* the continuation of sendChatMessage after its awaits: try, catch, finally
ChatResponse(r, o) ==
  /\ ~crashed
  /\ r \in chatReqs
  /\ chatReqs' = chatReqs \ {r}
  /\ chatLoading' = FALSE
  /\ messages' =
       IF Throws(o) THEN Append(messages, Turn("assistant", ChatErrorText, r.id))
       ELSE Append(messages, Turn("assistant", RawTextOf(o), r.id))
  /\ last' = Did("chatResponse", o.kind)
  /\ UNCHANGED <<topic, lessonVars, quizVars, loading, chatInput,
                 store, lessonReqs, crashed, nLesson, nChat>>

\* clearChat that also removes the stored snapshot
clearChat_RemovesSnapshot ==
  /\ ~crashed
  /\ messages' = <<>>
  /\ store' = NoSnapshot
  /\ last' = Did("clearChat", "")
  /\ UNCHANGED <<topic, lessonVars, quizVars, loading, chatInput, chatLoading, lessonReqs, chatReqs, crashed, nLesson, nChat>>

clearChat ==
  /\ ~crashed
  /\ messages' = <<>>
  /\ last' = Did("clearChat", "")
  /\ UNCHANGED <<topic, lessonVars, quizVars, loading, chatInput, chatLoading, store, lessonReqs, chatReqs, crashed, nLesson, nChat>>

\* -------------------------------------------------------------------- quiz
\* selected[i]
Sel(s, i) == IF i \in DOMAIN s THEN s[i] ELSE Undefined

\* { ...s, [qIndex]: opt }
WithSelection(s, i, opt) ==
  [k \in DOMAIN s \cup {i} |-> IF k = i THEN opt ELSE s[k]]

\* selectOption without its score guard
selectOption_Unguarded(qIndex, opt) ==
  /\ ~crashed
  /\ selected' = WithSelection(selected, qIndex, opt)
  /\ store' = [Snapshot(topic, lesson, AsArray(quiz), summary)
                 EXCEPT !.hasSelected = TRUE,
                        !.selected = WithSelection(selected, qIndex, opt)]
  /\ last' = Did("selectOption", IF score # Null THEN "rejected" ELSE "done")
  /\ UNCHANGED <<topic, lessonVars, score, loading, chatVars,
                 lessonReqs, chatReqs, crashed, nLesson, nChat>>

selectOption(qIndex, opt) ==
  /\ ~crashed
  /\ IF score # Null
       THEN /\ last' = Did("selectOption", "rejected")
            /\ UNCHANGED <<selected, store>>
       ELSE /\ selected' = WithSelection(selected, qIndex, opt)
            /\ store' = [Snapshot(topic, lesson, AsArray(quiz), summary)
                           EXCEPT !.hasSelected = TRUE,
                                  !.selected = WithSelection(selected, qIndex, opt)]
            /\ last' = Did("selectOption", "done")
  /\ UNCHANGED <<topic, lessonVars, score, loading, chatVars,
                 lessonReqs, chatReqs, crashed, nLesson, nChat>>

\* quiz.forEach((q, i) => { if (selected[i] === q.correct) s++; })
Grade(items, sel) ==
  Cardinality({i \in 0..(Len(items) - 1) : Sel(sel, i) = items[i + 1].correct})

submitQuiz ==
  /\ ~crashed
  /\ IF Len(quiz) = 0
       THEN /\ last' = Did("submitQuiz", "rejected")
            /\ UNCHANGED <<score, store>>
       ELSE /\ score' = Grade(quiz, selected)
            /\ store' = [Snapshot(topic, lesson, AsArray(quiz), summary)
                           EXCEPT !.hasSelected = TRUE, !.selected = selected,
                                  !.hasScore = TRUE, !.score = Grade(quiz, selected)]
            /\ last' = Did("submitQuiz", IF score = Null THEN "first" ELSE "again")
  /\ UNCHANGED <<topic, lessonVars, selected, loading, chatVars,
                 lessonReqs, chatReqs, crashed, nLesson, nChat>>

\* resetAll without localStorage.removeItem
resetAll_KeepsSnapshot ==
  /\ ~crashed
  /\ topic' = <<>> /\ lesson' = <<>> /\ quiz' = <<>> /\ summary' = <<>>
  /\ selected' = NoSelection /\ score' = Null
  /\ messages' = <<>> /\ chatInput' = <<>>
  /\ last' = Did("resetAll", IF store.has THEN "snapshot" ELSE "empty")
  /\ UNCHANGED <<store, loading, chatLoading, lessonReqs, chatReqs, crashed,
                 nLesson, nChat>>

resetAll ==
  /\ ~crashed
  /\ store' = NoSnapshot
  /\ topic' = <<>> /\ lesson' = <<>> /\ quiz' = <<>> /\ summary' = <<>>
  /\ selected' = NoSelection /\ score' = Null
  /\ messages' = <<>> /\ chatInput' = <<>>
  /\ last' = Did("resetAll", IF store.has THEN "snapshot" ELSE "empty")
  /\ UNCHANGED <<loading, chatLoading, lessonReqs, chatReqs, crashed,
                 nLesson, nChat>>

\* ----------------------------------------------------------------- startup
\* The page is loaded again: every useState starts from its initial value,
\* the requests of the page that was left are never delivered, and the
\* "load progress" effect reads the store.  A stored quiz that is a string
\* makes the first render after the load throw (quiz.map is not a function),
\* which unmounts the application.
Reload ==
  /\ loading' = FALSE /\ chatLoading' = FALSE
  /\ messages' = <<>> /\ chatInput' = <<>>
  /\ selected' = NoSelection /\ score' = Null
  /\ lessonReqs' = {} /\ chatReqs' = {}
  /\ IF store.has
       THEN /\ topic' = store.topic
            /\ lesson' = store.lesson
            /\ quiz' = IF store.quiz.kind = "array" THEN store.quiz.items ELSE <<>>
            /\ summary' = store.summary
            /\ crashed' = (store.quiz.kind = "other")
       ELSE /\ topic' = <<>> /\ lesson' = <<>> /\ quiz' = <<>> /\ summary' = <<>>
            /\ crashed' = FALSE
  /\ last' = Did("reload", "")
  /\ UNCHANGED <<store, nLesson, nChat>>

\* {q.a.map((opt) => <button onClick={() => selectOption(i, opt)} ...>)}: the
\* quiz shows a button for option opt of item i
Offered(i, opt) ==
  /\ i < Len(quiz)
  /\ \E k \in 1..Len(quiz[i + 1].a) : quiz[i + 1].a[k] = opt

\* a click on an option that is shown, or any call of selectOption once the
\* quiz is graded (the buttons are disabled then; the handler's own guard is
\* what the model relies on)
SelectCall(i, opt) ==
  /\ score # Null \/ Offered(i, opt)
  /\ selectOption(i, opt)

\* ----------------------------------------------------- the specifications
\* Every handler and both kinds of request, with every input.
Next ==
  \/ \E t \in Topics : SetTopic(t)
  \/ GenerateButton(TRUE)
  \/ TopicEnter(TRUE)
  \/ \E r \in lessonReqs, o \in LessonOutcomes : LessonResponse(r, o)
  \/ \E t \in ChatInputs : SetChatInput(t)
  \/ SendButton
  \/ ChatEnter
  \/ \E t \in Transcripts : SpeechResult(t)
  \/ \E r \in chatReqs, o \in ChatOutcomes : ChatResponse(r, o)
  \/ clearChat
  \/ \E i \in Indices, opt \in Options : SelectCall(i, opt)
  \/ submitQuiz
  \/ resetAll
  \/ Reload

Spec == Init /\ [][Next]_vars

\* Lesson and quiz: the chat handlers, which leave lesson, quiz, selected,
\* score and store unchanged, are left out.
NextQuiz ==
  \/ \E t \in Topics : SetTopic(t)
  \/ GenerateButton(FALSE)
  \/ TopicEnter(FALSE)
  \/ \E r \in lessonReqs, o \in LessonOutcomes : LessonResponse(r, o)
  \/ \E i \in Indices, opt \in Options : SelectCall(i, opt)
  \/ submitQuiz
  \/ resetAll
  \/ Reload

SpecQuiz == Init /\ [][NextQuiz]_vars

\* Chat: the quiz handlers and the lesson responses, which leave messages,
\* chatInput, chatLoading and the chat requests unchanged, are left out.
TalkOutcomes ==
  {Outcome("network", <<>>), Outcome("status", <<>>), Outcome("ok", <<"R">>)}

NextChat ==
  \/ SetTopic(<<"T">>)
  \/ TopicEnter(FALSE)
  \/ SetChatInput(<<"q", WS>>)
  \/ SendButton
  \/ ChatEnter
  \/ \E t \in {<<>>, <<"v">>} : SpeechResult(t)
  \/ \E r \in chatReqs, o \in TalkOutcomes : ChatResponse(r, o)
  \/ clearChat
  \/ resetAll
  \/ Reload

SpecChat == Init /\ [][NextChat]_vars

\* Requests that fail: one lesson, one typed question, one answered item,
\* with each lesson request remembering the session it was called in.
NextFailure ==
  \/ SetTopic(<<"T">>)
  \/ GenerateButton(TRUE)
  \/ TopicEnter(TRUE)
  \/ \E r \in lessonReqs,
        o \in {Outcome("network", <<>>), Outcome("status", <<>>), Outcome("ok", <<"{good}">>)} :
          LessonResponse(r, o)
  \/ SetChatInput(<<"q", WS>>)
  \/ ChatEnter
  \/ \E r \in chatReqs, o \in TalkOutcomes : ChatResponse(r, o)
  \/ SelectCall(0, "y")
  \/ submitQuiz

SpecFailure == Init /\ [][NextFailure]_vars

\* Chat beside the quiz: one lesson, typed and spoken questions whose
\* requests are answered or fail, and the quiz answered meanwhile.
NextBoth ==
  \/ SetTopic(<<"T">>)
  \/ GenerateButton(FALSE)
  \/ \E r \in lessonReqs : LessonResponse(r, Outcome("ok", <<"{good}">>))
  \/ SetChatInput(<<"q", WS>>)
  \/ SendButton
  \/ ChatEnter
  \/ SpeechResult(<<"v">>)
  \/ \E r \in chatReqs, o \in {Outcome("network", <<>>), Outcome("ok", <<"R">>)} :
        ChatResponse(r, o)
  \/ clearChat
  \/ SelectCall(0, "y")
  \/ submitQuiz

SpecBoth == Init /\ [][NextBoth]_vars

\* What is typed or spoken: every topic, chat input and transcript, blank
\* ones included, with requests that are answered.
NextInput ==
  \/ \E t \in Topics : SetTopic(t)
  \/ GenerateButton(FALSE)
  \/ TopicEnter(FALSE)
  \/ \E r \in lessonReqs : LessonResponse(r, Outcome("ok", <<"{good}">>))
  \/ \E t \in ChatInputs : SetChatInput(t)
  \/ SendButton
  \/ ChatEnter
  \/ \E t \in Transcripts : SpeechResult(t)
  \/ \E r \in chatReqs : ChatResponse(r, Outcome("ok", <<"R">>))

SpecInput == Init /\ [][NextInput]_vars

\* ---------------------------------------------------------------- claims
\* C1: at most one lesson-generation request is outstanding at any time,
\* whichever control called fetchLesson.
C1_AtMostOneLessonRequest == Cardinality(lessonReqs) <= 1

\* C2: at most one chat request is outstanding at any time, whichever of the
\* Send button, the Enter key and the speech recognizer called sendChatMessage.
C2_AtMostOneChatRequest == Cardinality(chatReqs) <= 1

\* C3: when score is set, selectOption with any index and option leaves
\* selected as it was and writes nothing to the store.
C3_SelectAfterSubmitIsNoOp ==
  [][ (score # Null /\ \E i \in Indices, opt \in Options : selectOption(i, opt))
        => (selected' = selected /\ store' = store) ]_vars

C3_Witness ==
  /\ last.op = "selectOption" /\ last.how = "rejected"
  /\ score # Null
  /\ store.has /\ store.hasScore

\* the number of indices of the quiz whose selection was made and equals the
\* item's correct option
CorrectCount(items, sel) ==
  Cardinality({i \in 0..(Len(items) - 1) :
                 i \in DOMAIN sel /\ sel[i] = items[i + 1].correct})

\* C4: the score submitQuiz records for a non-empty quiz is the number of
\* indices whose final selection equals the item's correct option; an index
\* never selected does not count.
C4_ScoreCountsCorrectSelections ==
  (last.op = "submitQuiz" /\ last.how # "rejected") => score = CorrectCount(quiz, selected)

\* C5: once score is set, the quiz items, the selections and the score stay as
\* they are until resetAll or fetchLesson is called, whatever else happens
\* (responses of outstanding requests included).  A page reload starts a new
\* page lifetime and is not counted against the property.
C5_GradedIsTerminal ==
  [][ (score # Null /\ last'.op \notin {"resetAll", "fetchLesson", "reload"})
        => (quiz' = quiz /\ selected' = selected /\ score' = score) ]_vars

C7_FailureLeavesSessionAsBefore ==
  [][ ( /\ last.op = "fetchLesson" /\ last.how = "sent"
        /\ Cardinality(lessonReqs) = 1
        /\ last'.op = "lessonResponse" /\ last'.how \in {"network", "badbody"} )
        => Session' = last'.pre ]_vars

\* C8: a transport failure of either kind is surfaced and never handled as a
\* completion: a failed lesson request alerts and installs no lesson or quiz,
\* a failed chat request appends the fixed diagnostic turn.
C8_FailuresAreSurfaced ==
  [][ /\ (last'.op = "lessonResponse" /\ last'.how # "ok")
           => (last'.alert /\ lesson' = lesson /\ quiz' = quiz /\ summary' = summary)
      /\ (last'.op = "chatResponse" /\ last'.how # "ok")
           => (/\ Len(messages') = Len(messages) + 1
               /\ messages'[Len(messages')].role = "assistant"
               /\ messages'[Len(messages')].content = ChatErrorText) ]_vars

\* C9: no dangling user turn: every user turn in the history is followed by
\* the assistant turn of its exchange unless its request is still
\* outstanding, and when no chat request is outstanding a non-empty history
\* ends with an assistant turn.
C9_NoDanglingUserTurn ==
  /\ \A k \in 1..Len(messages) :
       messages[k].role = "user" =>
         \/ \E r \in chatReqs : r.id = messages[k].xid
         \/ \E j \in (k + 1)..Len(messages) :
              messages[j].role = "assistant" /\ messages[j].xid = messages[k].xid
  /\ (chatReqs = {} /\ messages # <<>>) => messages[Len(messages)].role = "assistant"

C9_Witness ==
  /\ last.op = "chatResponse" /\ last.how = "network"
  /\ chatReqs = {}
  /\ Len(messages) >= 4
  /\ messages[Len(messages)].content = ChatErrorText

\* C10: the turns a chat request carries after the system turn and before the
\* new user turn are at most 10 and are the last turns of the history at the
\* time of the request, in order (all of it when it has fewer than 10).
C10_WindowIsTailOfHistory ==
  \A r \in chatReqs :
    /\ Len(r.window) <= WindowCap
    /\ r.window = SliceLast(r.hist, WindowCap)

\* C11: after a lesson request completed with transport success, the store
\* holds a snapshot whose lesson, quiz and summary are those of the active
\* lesson and whose topic is the one the lesson was generated for, whether
\* the lesson came from the parsed output or from the fallback.
C11_StoreHoldsActiveLesson ==
  (last.op = "lessonResponse" /\ last.how = "ok")
    => /\ store.has
       /\ store.lesson = lesson
       /\ store.quiz.items = quiz
       /\ store.summary = summary

\* C12: a page load with a snapshot written by selectOption or submitQuiz in
\* the store restores the snapshot's lesson, quiz and summary and also its
\* selections and its score.
C12_ReloadRestoresProgress ==
  [][ (last'.op = "reload" /\ store.has /\ store.hasSelected /\ store.quiz.kind = "array")
        => /\ lesson' = store.lesson
           /\ quiz' = store.quiz.items
           /\ summary' = store.summary
           /\ selected' = store.selected
           /\ score' = store.score ]_vars

\* C13: resetAll, in whatever state it is called, leaves the quiz with no
\* items, no selections and no score, and the store without a snapshot.
C13_ResetLeavesNothing ==
  [][ resetAll => (/\ quiz' = <<>> /\ selected' = NoSelection /\ score' = Null
                   /\ store' = NoSnapshot) ]_vars

C13_Witness ==
  /\ last.op = "resetAll" /\ last.how = "snapshot"
  /\ lessonReqs # {}
  /\ ~store.has /\ quiz = <<>> /\ score = Null

\* C14: fetchLesson with an empty or whitespace-only topic, and
\* sendChatMessage with an empty or whitespace-only text (a speech transcript
\* included), issue no request, append no turn and leave lesson, quiz,
\* selected, score and messages as they were.
C14_InvalidInputIsRejected ==
  [][ /\ (last'.op = "fetchLesson" /\ Trim(topic) = <<>>)
            => (lessonReqs' = lessonReqs /\ chatReqs' = chatReqs /\ Session' = Session)
      /\ \A t \in Transcripts :
            (Trim(t) = <<>> /\ SpeechResult(t))
              => (lessonReqs' = lessonReqs /\ chatReqs' = chatReqs /\ Session' = Session) ]_vars

\* the lesson, quiz and summary a session would show for the parsed document
\* d, and whether d has all three fields
RecordOf(d) ==
  [lesson |-> DocValue(d).lesson,
   quiz |-> IF DocValue(d).quiz.kind = "array" THEN DocValue(d).quiz.items ELSE <<>>,
   summary |-> DocValue(d).summary]

Complete(d) ==
  /\ DocValue(d).lesson # <<>>
  /\ DocValue(d).quiz.kind # "missing"
  /\ DocValue(d).summary # <<>>

ActiveRecord == [lesson |-> lesson, quiz |-> quiz, summary |-> summary]

IsFallbackRecord ==
  \E t \in Topics :
    /\ quiz = FallbackQuiz(t)
    /\ summary = FallbackSummary(t)
    /\ lesson \in {FailedLesson(t)} \cup (LessonRaws \ {<<>>})

\* C15: after a lesson request completed with transport success, lesson, quiz
\* and summary are all three those of a parsed document that has the three
\* fields (the quiz as a sequence, empty when the field is not one) or all
\* three those of the fallback; lesson and summary are never empty.
C15_NoPartialRecord ==
  (last.op = "lessonResponse" /\ last.how = "ok")
    => /\ lesson # <<>> /\ summary # <<>>
       /\ \/ \E d \in ObjDocs : Complete(d) /\ ActiveRecord = RecordOf(d)
          \/ IsFallbackRecord

C15_Witness ==
  /\ last.op = "lessonResponse" /\ last.how = "ok"
  /\ lesson = <<"{nosummary}">>
  /\ Len(quiz) = 2

\* the text holds the topic t as a run of consecutive tokens
HoldsTopic(text, t) ==
  \E i \in 1..Len(text) : i + Len(t) - 1 <= Len(text) /\ SubSeq(text, i, i + Len(t) - 1) = t

WellFormedItem(it) ==
  /\ Len(it.a) = 3
  /\ Cardinality({it.a[k] : k \in 1..3}) = 3
  /\ \E k \in 1..3 : it.a[k] = it.correct

\* C16: when the completion gives no usable record, the quiz installed has
\* exactly 2 items, each with 3 distinct options one of which is its correct
\* option, and the lesson is the raw text when that is non-empty and else
\* the failure message naming the topic of the request.
C16_FallbackRecord ==
  [][ \A r \in lessonReqs, o \in LessonOutcomes :
        (/\ LessonResponse(r, o)
         /\ ~Throws(o)
         /\ ~Usable(extractJSON(RawTextOf(o))))
          => /\ Len(quiz') = 2
             /\ \A k \in 1..Len(quiz') : WellFormedItem(quiz'[k])
             /\ RawTextOf(o) # <<>> => lesson' = RawTextOf(o)
             /\ RawTextOf(o) = <<>>
                  => (lesson' = FailedLesson(r.topic) /\ HoldsTopic(lesson', r.topic)) ]_vars

C16_Witness ==
  /\ last.op = "lessonResponse" /\ last.how = "ok"
  /\ lesson = FailedLesson(<<"T">>)
  /\ topic = <<WS>>
  /\ Len(quiz) = 2

\* C17: once fetchLesson has been called, the history holds no turn of an
\* exchange started before the call.  Stated for the resolution of a chat
\* request that comes right after the call: every request outstanding then
\* was started before it.
C17_NewLessonDiscardsConversation ==
  [][ (last.op = "fetchLesson" /\ last.how = "sent" /\ last'.op = "chatResponse")
        => messages' = <<>> ]_vars

\* C18: sendChatMessage, the resolution of a chat request and clearChat leave
\* lesson, quiz, selected, score and the store as they were; selectOption and
\* submitQuiz leave messages and chatLoading as they were and take effect
\* while a chat request is outstanding.
C18_ChatAndQuizAreDisjoint ==
  [][ /\ last'.op \in {"sendChatMessage", "chatResponse", "clearChat"}
            => (/\ lesson' = lesson /\ quiz' = quiz /\ summary' = summary
                /\ selected' = selected /\ score' = score /\ store' = store)
      /\ last'.op \in {"selectOption", "submitQuiz"}
            => (messages' = messages /\ chatLoading' = chatLoading /\ chatReqs' = chatReqs)
      /\ \A i \in Indices, opt \in Options :
            (chatReqs # {} /\ score = Null /\ selectOption(i, opt))
              => (i \in DOMAIN selected' /\ selected'[i] = opt)
      /\ (chatReqs # {} /\ Len(quiz) > 0 /\ submitQuiz) => score' # Null ]_vars

C18_Witness ==
  /\ last.op = "submitQuiz" /\ last.how = "first"
  /\ chatReqs # {} /\ chatLoading
  /\ messages # <<>>
  /\ selected # NoSelection

\* C19: loading is set exactly while a lesson request is outstanding and
\* chatLoading exactly while a chat request is outstanding.
C19_FlagsTrackRequests ==
  /\ loading <=> lessonReqs # {}
  /\ chatLoading <=> chatReqs # {}

\* C20: every assistant turn in the history has the user turn it answers
\* somewhere before it.
C20_NoOrphanAssistantTurn ==
  \A k \in 1..Len(messages) :
    messages[k].role = "assistant"
      => \E j \in 1..(k - 1) :
           messages[j].role = "user" /\ messages[j].xid = messages[k].xid

====
